---------------------------- MODULE Spec2Model ----------------------------
(***************************************************************************)
(* Fetch-and-merge job of the solar energy dashboard                       *)
(* (src/aws_api_handler.py): update_meter_data and fetch_missing_data read *)
(* the persisted parquet object, ask the vendor API for readings, pivot    *)
(* them into wide rows, merge them into the persisted frame and write the  *)
(* object back.                                                            *)
(*                                                                         *)
(* Timestamps are minutes since 2024-11-08 00:00:00.  The vendor sends and *)
(* receives them as 'YYYY-MM-DD HH:MM:SS' strings, modelled as records     *)
(* [day, hh, mm, ss] with day counted from 2024-11-08.                     *)
(***************************************************************************)
EXTENDS Integers, Sequences, FiniteSets

\* ------------------------------------------------------------------ bounds
MaxSlot == 1
MaxVal == 1
MaxReadings == 2

\* ------------------------------------------------------- program constants
BootstrapEpoch == 0
QuarterHour == 15
NaN == -1

Types == {"Consumption", "Production"}
TypeOrder == <<"Consumption", "Production">>

Slots == 0..MaxSlot
Dates == {QuarterHour * k : k \in Slots}
Values == 1..MaxVal

\* --------------------------------------------------------- generic helpers
Range(s) == {s[i] : i \in DOMAIN s}

SetMax(S) == CHOOSE x \in S : \A y \in S : y <= x

SetMin(S) == CHOOSE x \in S : \A y \in S : x <= y

RECURSIVE Ascending(_)
Ascending(S) == IF S = {} THEN <<>>
                ELSE LET m == SetMin(S) IN <<m>> \o Ascending(S \ {m})

\* The subsequence of s at the positions of K from i on, in order.
RECURSIVE Filter(_, _, _)
Filter(s, K, i) ==
    IF i > Len(s) THEN <<>>
    ELSE (IF i \in K THEN <<s[i]>> ELSE <<>>) \o Filter(s, K, i + 1)

RECURSIVE Concat(_)
Concat(ss) == IF ss = <<>> THEN <<>> ELSE Head(ss) \o Concat(Tail(ss))

\* ---------------------------------------------------- timestamp conversion
\* datetime.strftime('%Y-%m-%d %H:%M:%S')
strftime(t) == [day |-> t \div 1440, hh |-> (t % 1440) \div 60,
                mm |-> t % 60, ss |-> 0]

\* pd.to_datetime on one 'YYYY-MM-DD HH:MM:SS' string
to_datetime(s) == (s.day * 24 + s.hh) * 60 + s.mm

NoTime == [day |-> -1, hh |-> 0, mm |-> 0, ss |-> 0]

\* ------------------------------------------------------------- data frames
\* A frame is [columns, index, rows]: the column names in order, the index
\* labels, and one record per row mapping each column to its cell.
EmptyFrame == [columns |-> <<>>, index |-> <<>>, rows |-> <<>>]

RangeIndex(n) == [i \in 1..n |-> i - 1]

HasColumn(df, c) == c \in Range(df.columns)

IsEmpty(df) == Len(df.rows) = 0 \/ Len(df.columns) = 0

\* The type columns of the frame, in frame order.
TypeColumns(df) ==
    Filter(df.columns, {i \in DOMAIN df.columns : df.columns[i] # "date"}, 1)

\* A row widened to the columns cols, NaN where it has no cell.
Reindex(row, cols) ==
    [c \in Range(cols) |-> IF c \in DOMAIN row THEN row[c] ELSE NaN]


\* pd.read_parquet: the stored columns and rows under a fresh RangeIndex.
read_parquet(blob) ==
    [columns |-> blob.columns, index |-> RangeIndex(Len(blob.rows)),
     rows |-> blob.rows]

\* df.to_parquet(buffer, index=False): columns and rows, the index dropped.
to_parquet(df) == [exists |-> TRUE, columns |-> df.columns, rows |-> df.rows]

\* pd.DataFrame(rows) of the flattened readings; no rows, no columns.
DataFrame(rows) ==
    IF rows = <<>> THEN EmptyFrame
    ELSE [columns |-> <<"date", "type", "value">>,
          index |-> RangeIndex(Len(rows)), rows |-> rows]

\* pivot_table(index='date', columns='type', values='value', aggfunc='last'):
\* the index is the sorted dates, the columns the sorted types, each cell
\* the value of the last row of its (date, type) group, NaN for no row.
\* (No reading of the model carries a null value, so dropna removes nothing.)
\* Variant: the index in order of first appearance, as without the sort.
PivotIndexUnsorted(df) ==
    LET first(i) == \A j \in DOMAIN df.rows :
                       j < i => df.rows[j].date # df.rows[i].date
        kept == Filter(df.rows, {i \in DOMAIN df.rows : first(i)}, 1)
    IN  [k \in DOMAIN kept |-> kept[k].date]

PivotIndex(df) == Ascending({df.rows[i].date : i \in DOMAIN df.rows})

pivot_table(df) ==
    LET dates == PivotIndex(df)
        seen  == {df.rows[i].type : i \in DOMAIN df.rows}
        types == Filter(TypeOrder,
                        {i \in DOMAIN TypeOrder : TypeOrder[i] \in seen}, 1)
        group(d, ty) == {i \in DOMAIN df.rows :
                            df.rows[i].date = d /\ df.rows[i].type = ty}
        last(d, ty) == LET g == group(d, ty)
                       IN  IF g = {} THEN NaN ELSE df.rows[SetMax(g)].value
    IN  [columns |-> types, index |-> dates,
         rows |-> [k \in DOMAIN dates |->
                     [ty \in Range(types) |-> last(dates[k], ty)]]]

\* reset_index(inplace=True): the index becomes the first column, 'date'.
reset_index(pt) ==
    LET cols == <<"date">> \o pt.columns
    IN  [columns |-> cols, index |-> RangeIndex(Len(pt.rows)),
         rows |-> [k \in DOMAIN pt.rows |->
                     [c \in Range(cols) |->
                        IF c = "date" THEN pt.index[k] ELSE pt.rows[k][c]]]]

\* pd.concat([a, b]): the rows of a then those of b over the union of the
\* columns in order of appearance, the index labels kept.
concat(a, b) ==
    LET cols == a.columns \o
                Filter(b.columns,
                       {i \in DOMAIN b.columns : ~HasColumn(a, b.columns[i])},
                       1)
        rows == a.rows \o b.rows
    IN  [columns |-> cols, index |-> a.index \o b.index,
         rows |-> [k \in DOMAIN rows |-> Reindex(rows[k], cols)]]

\* Variant: no row is dropped.
KeepAll(df, i) == TRUE

\* Variant: keep='first'.
KeepFirst(df, i) ==
    \A j \in DOMAIN df.rows : j < i => df.rows[j].date # df.rows[i].date

\* Variant: keep=False, every row of a repeated date is dropped.
KeepUnique(df, i) ==
    \A j \in DOMAIN df.rows : j # i => df.rows[j].date # df.rows[i].date

\* keep='last': row i stays when no later row has its date.
KeepLast(df, i) ==
    \A j \in DOMAIN df.rows : j > i => df.rows[j].date # df.rows[i].date

\* drop_duplicates(subset='date', keep='last')
drop_duplicates(df) ==
    LET keep == {i \in DOMAIN df.rows : KeepLast(df, i)}
    IN  [columns |-> df.columns, index |-> Filter(df.index, keep, 1),
         rows |-> Filter(df.rows, keep, 1)]

\* ------------------------------------------------------------- vendor API
\* A response is [kind |-> "None"] (the request failed) or
\* [kind |-> "json", body |-> dict]; a dict is a function on its keys.
EmptyDict == [k \in {} |-> 0]

Get(dict, key, default) == IF key \in DOMAIN dict THEN dict[key] ELSE default

\* Python truth of fetch_api_data's result: None and {} are false.
Truthy(new_data_json) ==
    new_data_json.kind = "json" /\ DOMAIN new_data_json.body # {}

\* The meters list: new_data_json.get("energyDetails", {}).get("meters", [])
Meters(new_data_json) ==
    Get(Get(new_data_json.body, "energyDetails", EmptyDict), "meters", <<>>)

\* The flattening loop: one row per value of each meter, in list order, a
\* missing 'value' field read as 0.
FlattenMeter(meter) ==
    [k \in DOMAIN meter.values |->
        [date |-> meter.values[k].date, type |-> meter.type,
         value |-> Get(meter.values[k], "value", 0)]]

Flatten(new_data) ==
    Concat([k \in DOMAIN new_data |-> FlattenMeter(new_data[k])])

\* new_data_df['date'] = pd.to_datetime(new_data_df['date'])
ParseDates(df) ==
    [df EXCEPT !.rows = [k \in DOMAIN df.rows |->
        [df.rows[k] EXCEPT !.date = to_datetime(df.rows[k].date)]]]

\* From the flattened frame to the wide frame.
Reshape(new_data_df) == reset_index(pivot_table(ParseDates(new_data_df)))

\* ------------------------------------------------------------ object store
\* The persisted object: absent, or the parquet blob of a frame.
Absent == [exists |-> FALSE, columns |-> <<>>, rows |-> <<>>]

Call(api, ok) == [api |-> api, ok |-> ok]

\* Variant: a failed download yields a frame of no rows that has the 'date'
\* column.
download_with_schema(s, getOk) ==
    IF s.exists /\ getOk THEN read_parquet(s)
    ELSE [columns |-> <<"date">>, index |-> <<>>, rows |-> <<>>]

\* download_file_from_s3: the stored frame, or pd.DataFrame() when get_object
\* or the parse raises (a missing key raises too).
download_file_from_s3(s, getOk) ==
    IF s.exists /\ getOk THEN read_parquet(s) ELSE EmptyFrame

\* upload_file_to_s3: the object is overwritten unless the put raises, and
\* the exception is swallowed.
upload_file_to_s3(s, df, putOk) == IF putOk THEN to_parquet(df) ELSE s

\* ------------------------------------------------------------ the handlers
\* Variant: the window starts at the latest date, the quarter hour not added.
WindowStartNoStep(df) ==
    IF IsEmpty(df) THEN strftime(BootstrapEpoch)
    ELSE strftime(SetMax({df.rows[i].date : i \in DOMAIN df.rows}))

\* The window start of update_meter_data.
WindowStart(df) ==
    IF IsEmpty(df) THEN strftime(BootstrapEpoch)
    ELSE strftime(SetMax({df.rows[i].date : i \in DOMAIN df.rows})
                  + QuarterHour)

\* fetch_api_data's guard: SITE_ID and API_KEY are both set and non-empty.
HasCredentials(env) == env.site_id /\ env.api_key

\* The merge of update_meter_data.
MergeUpdate(df, reshaped_df) ==
    IF ~IsEmpty(df) THEN drop_duplicates(concat(df, reshaped_df))
    ELSE reshaped_df

\* The merge of fetch_missing_data.
MergeMissing(df, reshaped_df) == drop_duplicates(concat(df, reshaped_df))

\* The record of a run: the handler, whether the environment held both
\* credentials, how the run ended, its external calls in order, the
\* startTime it computed, what the response amounted to.
RunRecord(op, env, outcome, calls, start, fetched) ==
    [op |-> op, credentials |-> HasCredentials(env), outcome |-> outcome,
     calls |-> calls, start_time |-> start, fetched |-> fetched]

\* What the response amounts to after the truth test and the flattening.
Fetched(new_data_json) ==
    IF new_data_json.kind = "None" THEN "failed"
    ELSE IF ~Truthy(new_data_json) THEN "empty"
    ELSE IF Flatten(Meters(new_data_json)) = <<>> THEN "no_rows"
    ELSE "rows"

\* One run of a handler: op names it, s is the object store before the run,
\* env the environment, getOk and putOk whether the transport of the get and
\* of the put works, new_data_json what the vendor request yields.  The
\* result is the object store after the run and the record of the run: how
\* it ended, the external calls it made in order, the startTime it computed
\* (update_meter_data only; the window of fetch_missing_data is its
\* caller's, and the endTime is read by the request alone).
Handler(op, s, env, getOk, new_data_json, putOk) ==
    LET df == download_file_from_s3(s, getOk)
        get == Call("get_object", s.exists /\ getOk)
        http == Call("requests.get", new_data_json.kind = "json")
        put == Call("put_object", putOk)
        start == IF op = "update_meter_data" THEN WindowStart(df) ELSE NoTime
        new_data_df == DataFrame(Flatten(Meters(new_data_json)))
        merged == IF op = "update_meter_data"
                  THEN MergeUpdate(df, Reshape(new_data_df))
                  ELSE MergeMissing(df, Reshape(new_data_df))
    IN  IF ~HasColumn(df, "date")
        THEN \* df['date'] on a frame without the column
             [store |-> s,
              run |-> RunRecord(op, env, "KeyError", <<get>>, NoTime,
                                "not_requested")]
        ELSE IF ~HasCredentials(env)
        THEN [store |-> s,
              run |-> RunRecord(op, env, "ValueError", <<get>>, start,
                                "not_requested")]
        ELSE IF ~Truthy(new_data_json)
        THEN [store |-> s,
              run |-> RunRecord(op, env, "returned", <<get, http>>, start,
                                Fetched(new_data_json))]
        ELSE IF ~HasColumn(new_data_df, "date")
        THEN \* new_data_df['date'] on the frame of no rows
             [store |-> s,
              run |-> RunRecord(op, env, "KeyError", <<get, http>>, start,
                                "no_rows")]
        ELSE [store |-> upload_file_to_s3(s, merged, putOk),
              run |-> RunRecord(op, env, "returned", <<get, http, put>>,
                                start, "rows")]

\* ------------------------------------------------------------------ inputs
Environments == [site_id : BOOLEAN, api_key : BOOLEAN]

FullEnvironment == [site_id |-> TRUE, api_key |-> TRUE]

DateStrings == {strftime(d) : d \in Dates}

\* One entry of a meter's values list, with or without its 'value' field.
ValueEntries ==
    {[date |-> ds] : ds \in DateStrings}
    \cup {[date |-> ds, value |-> v] : ds \in DateStrings, v \in Values}

SeqsUpTo(S, n) == UNION {[1..k -> S] : k \in 0..n}

MeterEntries == [type : Types, values : SeqsUpTo(ValueEntries, MaxReadings)]

\* The meters lists of the model: at most one entry per meter type in number
\* (two entries may name the same type), at most MaxReadings values in all.
MaxMeters == Cardinality(Types)

\* The number of values in all the meters of a list.
Readings(meters) ==
    Cardinality(UNION {{k} \X DOMAIN meters[k].values : k \in DOMAIN meters})

MetersLists ==
    {ms \in SeqsUpTo(MeterEntries, MaxMeters) : Readings(ms) <= MaxReadings}

ApiNone == [kind |-> "None"]

ApiJson(body) == [kind |-> "json", body |-> body]

ApiMeters(meters) == ApiJson([energyDetails |-> [meters |-> meters]])

\* The persisted frames a run can find: a 'date' column and any type
\* columns, ascending unique dates, every row with a value in some column.
Cells == {NaN, 0} \cup Values

ColumnOrders ==
    {cols \in SeqsUpTo(Types, Cardinality(Types)) :
        \A i, j \in DOMAIN cols : cols[i] = cols[j] => i = j}

WideRows(cols) ==
    {r \in [Range(<<"date">> \o cols) -> Cells \cup Dates] :
        /\ r["date"] \in Dates
        /\ \A c \in Range(cols) : r[c] \in Cells
        /\ \E c \in Range(cols) : r[c] # NaN}

PersistedFrames ==
    UNION {
        {[exists |-> TRUE, columns |-> <<"date">> \o cols, rows |-> rows] :
            rows \in {rs \in SeqsUpTo(WideRows(cols), Cardinality(Dates)) :
                        \A i, j \in DOMAIN rs :
                            i < j => rs[i]["date"] < rs[j]["date"]}}
        : cols \in ColumnOrders}

\* The persisted frames a merge can find: the same with the rows in any
\* order (a merge appends the batch after the rows it keeps).
StoredFrames ==
    UNION {
        {[exists |-> TRUE, columns |-> <<"date">> \o cols, rows |-> rows] :
            rows \in {rs \in SeqsUpTo(WideRows(cols), Cardinality(Dates)) :
                        \A i, j \in DOMAIN rs :
                            i # j => rs[i]["date"] # rs[j]["date"]}}
        : cols \in ColumnOrders}

Ops == {"update_meter_data", "fetch_missing_data"}

\* ------------------------------------------------------------------- state
\* store: the persisted object.  run: the record of the last run.  test: the
\* merge experiment of SpecMerge (its handler, the frame D and the meters
\* list B it started from, the reordering B2 of B it merged, the object store
\* after the first merge).
VARIABLES store, run, test

vars == <<store, run, test>>

NoRun == RunRecord("none", FullEnvironment, "none", <<>>, NoTime,
                   "not_requested")

NoTest == [pc |-> "none", op |-> "none", D |-> Absent, B |-> <<>>,
           B2 |-> <<>>, once |-> Absent]

Init ==
    /\ store \in {Absent} \cup PersistedFrames
    /\ run = NoRun
    /\ test = NoTest

\* A run reads of the meters list only its flattening: the runs draw one list
\* per flattening (no empty values list beside a filled one, no two adjacent
\* entries of one type), and the lists that flatten to nothing.
ByFlattening(ms) ==
    \/ \A k \in DOMAIN ms : ms[k].values = <<>>
    \/ /\ \A k \in DOMAIN ms : ms[k].values # <<>>
       /\ \A k \in DOMAIN ms : k > 1 => ms[k].type # ms[k - 1].type

RunMeters == {ms : ms \in {x \in MetersLists : ByFlattening(x)}}

Ran(r) == store' = r.store /\ run' = r.run

\* One run of op: whether the get and the put work, the environment and the
\* response are drawn.  Without the credentials no request is made, so those
\* runs fix the response; a put is reached only after a get that worked, so
\* the runs whose put fails fix the get.
Run(op) ==
    \/ \E env \in Environments \ {FullEnvironment}, getOk \in BOOLEAN :
          Ran(Handler(op, store, env, getOk, ApiNone, FALSE))
    \/ \E body \in {EmptyDict, [energyDetails |-> EmptyDict]},
          getOk \in BOOLEAN :
          Ran(Handler(op, store, FullEnvironment, getOk, ApiJson(body),
                      FALSE))
    \/ \E getOk \in BOOLEAN :
          Ran(Handler(op, store, FullEnvironment, getOk, ApiNone, FALSE))
    \/ \E meters \in RunMeters, getOk \in BOOLEAN :
          Ran(Handler(op, store, FullEnvironment, getOk, ApiMeters(meters),
                      TRUE))
    \/ \E meters \in RunMeters :
          Ran(Handler(op, store, FullEnvironment, TRUE, ApiMeters(meters),
                      FALSE))

\* update_meter_data()
UpdateMeterData == Run("update_meter_data") /\ UNCHANGED test

\* fetch_missing_data(start_date, end_date)
FetchMissingData == Run("fetch_missing_data") /\ UNCHANGED test

Next == UpdateMeterData \/ FetchMissingData

Spec == Init /\ [][Next]_vars

\* --------------------------------------------------- the merge on its own
\* Runs in which every transport works, from a drawn frame D and a drawn
\* meters list B: B is merged into D, then merged again into the result; or
\* a reordering of B is merged into D.
Perms(n) == {p \in [1..n -> 1..n] : \A i, j \in 1..n : p[i] = p[j] => i = j}

Permuted(s) == {[i \in DOMAIN s |-> s[p[i]]] : p \in Perms(Len(s))}

RECURSIVE Product(_)
Product(sets) ==
    IF sets = <<>> THEN {<<>>}
    ELSE {<<h>> \o t : h \in Head(sets), t \in Product(Tail(sets))}

\* Every permutation of the meters list and of each meter's values list.
Reorderings(meters) ==
    UNION {Product([k \in DOMAIN ms |->
                      {[ms[k] EXCEPT !.values = vs] :
                          vs \in Permuted(ms[k].values)}])
           : ms \in Permuted(meters)}

InitMerge ==
    /\ store \in StoredFrames
    /\ run = NoRun
    /\ \E op \in Ops, B \in MetersLists :
          test = [pc |-> "input", op |-> op, D |-> store, B |-> B,
                  B2 |-> B, once |-> store]

MergeOnce ==
    /\ test.pc = "input"
    /\ Ran(Handler(test.op, store, FullEnvironment, TRUE, ApiMeters(test.B),
                   TRUE))
    /\ test' = [test EXCEPT !.pc = "once", !.once = store']

MergeTwice ==
    /\ test.pc = "once"
    /\ Ran(Handler(test.op, store, FullEnvironment, TRUE, ApiMeters(test.B),
                   TRUE))
    /\ test' = [test EXCEPT !.pc = "twice"]

MergeReordered ==
    /\ test.pc = "once"
    /\ \E B2 \in Reorderings(test.B) :
          /\ Ran(Handler(test.op, test.D, FullEnvironment, TRUE,
                         ApiMeters(B2), TRUE))
          /\ test' = [test EXCEPT !.pc = "reordered", !.B2 = B2]

NextMerge == MergeOnce \/ MergeTwice \/ MergeReordered

SpecMerge == InitMerge /\ [][NextMerge]_vars

\* -------------------------------------------------------------- properties
DatesOf(s) == {s.rows[i].date : i \in DOMAIN s.rows}

RowAt(s, t) == s.rows[CHOOSE i \in DOMAIN s.rows : s.rows[i].date = t]

PutDone(r) == Len(r.calls) = 3 /\ r.calls[3].ok

PutFailed(r) == Len(r.calls) = 3 /\ ~r.calls[3].ok

NoPut(r) == \A k \in DOMAIN r.calls : r.calls[k].api # "put_object"

\* The readings of a meters list as (timestamp, meter type, value) triples in
\* list order.
Triples(meters) ==
    LET rows == Flatten(meters)
    IN  [k \in DOMAIN rows |->
            [date |-> to_datetime(rows[k].date), type |-> rows[k].type,
             value |-> rows[k].value]]

BatchDates(meters) ==
    LET tr == Triples(meters) IN {tr[k].date : k \in DOMAIN tr}

\* The cell the batch gives to column c of timestamp t: the last value read
\* for (t, c), no value when the batch has no reading for it.
BatchCell(meters, t, c) ==
    LET tr == Triples(meters)
        at == {k \in DOMAIN tr : tr[k].date = t /\ tr[k].type = c}
    IN  IF at = {} THEN NaN ELSE tr[SetMax(at)].value

\* C1: the persisted dataset has at most one row per timestamp after any
\* sequence of runs.
TimestampUniqueness ==
    \A i, j \in DOMAIN store.rows :
        store.rows[i].date = store.rows[j].date => i = j

\* A run has written the merge of a batch and the dataset holds every
\* timestamp of the model.
TimestampUniquenessWitness ==
    PutDone(run) /\ DatesOf(store) = Dates /\ Cardinality(Dates) > 1

\* C2: after a non-empty batch B is merged into D, the row of every timestamp
\* present in both is the row pivoted from B: the batch's value in the
\* columns the batch has a reading for, no value in every other column.
RevisionOverwrite ==
    (test.pc = "once" /\ Triples(test.B) # <<>>) =>
        \A t \in DatesOf(test.D) \cap BatchDates(test.B) :
            /\ Cardinality({i \in DOMAIN store.rows : store.rows[i].date = t})
                  = 1
            /\ \A c \in Range(TypeColumns(store)) :
                  RowAt(store, t)[c] = BatchCell(test.B, t, c)

\* A merge replaced a row of D: a value was revised, and a value of a column
\* the batch does not mention is gone.
RevisionOverwriteWitness ==
    /\ test.pc = "once"
    /\ \E t \in DatesOf(test.D) \cap BatchDates(test.B) :
          /\ \E c \in Range(TypeColumns(test.D)) :
                /\ RowAt(test.D, t)[c] # NaN
                /\ RowAt(store, t)[c] = NaN
          /\ \E c \in Range(TypeColumns(test.D)) :
                /\ RowAt(test.D, t)[c] # NaN
                /\ RowAt(store, t)[c] # NaN
                /\ RowAt(store, t)[c] # RowAt(test.D, t)[c]

\* C3: merging the same batch a second time leaves the dataset as the first
\* merge left it: same columns, same rows, same order.
Idempotence == test.pc = "twice" => store = test.once

\* The batch was merged twice into a dataset it overlaps and changes.
IdempotenceWitness ==
    /\ test.pc = "twice"
    /\ PutDone(run)
    /\ store # test.D
    /\ DatesOf(test.D) \cap BatchDates(test.B) # {}
    /\ BatchDates(test.B) \ DatesOf(test.D) # {}

\* C4 as stated: merging any reordering of the batch into D gives the
\* dataset that merging the batch gives, repeated (timestamp, meter type)
\* pairs with different values included.
DeterminismUnderReordering == test.pc = "reordered" => store = test.once

\* No (timestamp, meter type) pair of the batch is read with two values.
NoConflict(meters) ==
    LET tr == Triples(meters)
    IN  \A i, j \in DOMAIN tr :
            (tr[i].date = tr[j].date /\ tr[i].type = tr[j].type)
                => tr[i].value = tr[j].value

\* C4 amended: merging any reordering of the batch into D gives the dataset
\* that merging the batch gives, provided no (timestamp, meter type) pair
\* appears in the batch with two different values.
DeterminismWithoutConflict ==
    (test.pc = "reordered" /\ NoConflict(test.B)) => store = test.once

\* A batch without conflict was merged in another order than it came in, its
\* two timestamps latest first.
DeterminismWitness ==
    /\ test.pc = "reordered"
    /\ NoConflict(test.B)
    /\ test.B2 # test.B
    /\ PutDone(run)
    /\ Len(Triples(test.B)) > 1
    /\ Triples(test.B)[1].date > Triples(test.B)[2].date

\* C5: a run whose fetched batch is empty (an empty response, no meters, or
\* meters without values) raises nothing, puts nothing and leaves the
\* persisted dataset as it was.
EmptyBatchNoOp ==
    [][run'.fetched \in {"empty", "no_rows"} =>
          /\ run'.outcome = "returned"
          /\ NoPut(run')
          /\ store' = store]_vars

\* C6: update_meter_data with no prior dataset (the get yields the empty
\* sentinel) does not fail, computes the bootstrap epoch as start and goes on
\* to the fetch.
BootstrapWithoutDataset ==
    (run.op = "update_meter_data" /\ run.calls # <<>> /\ ~run.calls[1].ok) =>
        /\ run.outcome # "KeyError"
        /\ run.start_time = [day |-> 0, hh |-> 0, mm |-> 0, ss |-> 0]
        /\ run.credentials => Len(run.calls) > 1

\* C7: a run without the site identifier or the API key ends in the
\* configuration error, and has attempted no external call.
ConfigurationErrorFirst ==
    (run.op # "none" /\ ~run.credentials) =>
        run.outcome = "ValueError" /\ run.calls = <<>>

\* The start a run is to compute from the persisted dataset s.
ExpectedStart(s) ==
    IF s.rows = <<>> THEN [day |-> 0, hh |-> 0, mm |-> 0, ss |-> 0]
    ELSE LET t == SetMax(DatesOf(s)) + 15
         IN  [day |-> t \div (24 * 60), hh |-> (t \div 60) % 24,
              mm |-> t % 60, ss |-> 0]

\* C8: a run whose put fails returns normally and leaves the persisted
\* dataset as it was, and the start the next run of update_meter_data
\* computes is the latest persisted timestamp plus 15 minutes (the bootstrap
\* epoch for a dataset without rows).
PutFailureLosesNothing ==
    [][/\ PutFailed(run') => (run'.outcome = "returned" /\ store' = store)
       /\ (PutFailed(run) /\ run'.op = "update_meter_data"
           /\ run'.start_time # NoTime)
             => run'.start_time = ExpectedStart(store)]_vars

\* A put failed on a dataset with rows.
PutFailureWitness ==
    PutFailed(run) /\ run.op = "update_meter_data" /\ store.rows # <<>>

\* C9: the rows of the persisted dataset are in ascending timestamp order
\* after every merge, from a dataset in that order.
Sortedness ==
    \A i, j \in DOMAIN store.rows :
        i < j => store.rows[i].date < store.rows[j].date

\* C10: a timestamp of the persisted dataset stays in it through every run.
NoDeletion == [][DatesOf(store) \subseteq DatesOf(store')]_vars

\* A run whose download failed has left a dataset with rows in place.
NoDeletionWitness ==
    /\ run.calls = <<Call("get_object", FALSE)>>
    /\ store.exists
    /\ store.rows # <<>>

=============================================================================
